---- MODULE Spec2Model ----
(***************************************************************************)
(* Resume Recognition System (main.py): the PDF extractor, the LLM client  *)
(* with its retry loop, the result formatter, the report generator and the *)
(* Streamlit session that wires them together.                             *)
(*                                                                         *)
(* Texts are TLA+ strings; the Python str methods the program uses are     *)
(* defined below character by character.  Two glyphs of the source are     *)
(* outside the ASCII range of TLA+ strings and are written with a stand-in *)
(* character: U+2022 (bullet) is "~" and U+26A0 (warning sign) is "!".     *)
(***************************************************************************)
EXTENDS Integers, Sequences, FiniteSets, TLC

VARIABLES
    fmt_x,            \* formatter: the text handed to the first call
    fmt_out,          \* formatter: the values returned by format(x), format(format(x))
    USE_PDF2IMAGE,    \* module global: OCR route available (poppler and tesseract)
    HAS_POPPLER,      \* module global: rasterizer available
    uploaded_resume,  \* the file held by the uploader widget
    extracted,        \* what the latest process_pdf call did and returned
    resume_text,      \* st.session_state.resume_text
    preview_images,   \* st.session_state.preview_images
    report_data,      \* the mapping handed to generate_enhanced_pdf_report
    pdf_report,       \* what the latest generate_enhanced_pdf_report call did
    groq_api_key,     \* module global: the credential, "" when none is configured
    api_tested,       \* st.session_state.api_tested (FALSE while the key is absent)
    api_working,      \* st.session_state.api_working (TRUE while the key is absent)
    last_groq_error,  \* st.session_state._last_groq_error ("" while absent)
    backend,          \* how the endpoint answers the next requests of a direct call
    llm_calls,        \* the analyze_resume_with_llm calls of the latest script run
    started,          \* the script has run at least once in this session
    active_page,      \* st.session_state.active_page
    rerun,            \* st.rerun() was called: the script runs again with no event
    pending,          \* the widget event that the next script run handles, if any
    selected_analysis,\* st.session_state.selected_analysis
    job_desc_input,   \* the text held by the job description widget
    job_description,  \* st.session_state.job_description
    chat_history,     \* st.session_state.chat_history
    current_question, \* st.session_state.current_question ("" while absent)
    run_log           \* what the latest script run did, in order

fmtVars == <<fmt_x, fmt_out>>
envVars == <<USE_PDF2IMAGE, HAS_POPPLER>>
pdfVars == <<uploaded_resume, extracted>>
docVars == <<resume_text, preview_images>>
repVars == <<report_data, pdf_report>>
apiVars == <<groq_api_key, api_tested, api_working>>
llmVars == <<last_groq_error, backend, llm_calls>>
navVars == <<started, active_page, rerun, pending, selected_analysis>>
uiVars == <<job_desc_input, job_description, chat_history, current_question, run_log>>

(***************************************************************************)
(* Python str methods                                                      *)
(***************************************************************************)
BULLET == "~"

Whitespace == {" ", "\n", "\t", "\r"}

CharAt(s, i) == SubSeq(s, i, i)

StartsWith(s, prefix) ==
    /\ Len(prefix) <= Len(s)
    /\ SubSeq(s, 1, Len(prefix)) = prefix

EndsWith(s, suffix) ==
    /\ Len(suffix) <= Len(s)
    /\ SubSeq(s, Len(s) - Len(suffix) + 1, Len(s)) = suffix

\* str.find, 1-based; 0 when sub does not occur in s
Find(s, sub) ==
    LET hits == {i \in 1..(Len(s) - Len(sub) + 1) : SubSeq(s, i, i + Len(sub) - 1) = sub}
    IN  IF hits = {} THEN 0 ELSE CHOOSE i \in hits : \A j \in hits : i <= j

\* the Python operator "sub in s"
Contains(s, sub) == sub = "" \/ Find(s, sub) > 0

RECURSIVE LStrip(_)
LStrip(s) ==
    IF s = "" THEN ""
    ELSE IF CharAt(s, 1) \in Whitespace THEN LStrip(SubSeq(s, 2, Len(s)))
    ELSE s

RECURSIVE RStrip(_)
RStrip(s) ==
    IF s = "" THEN ""
    ELSE IF CharAt(s, Len(s)) \in Whitespace THEN RStrip(SubSeq(s, 1, Len(s) - 1))
    ELSE s

Strip(s) == RStrip(LStrip(s))

RECURSIVE Intersperse(_, _)
Intersperse(s, new) ==
    IF s = "" THEN new
    ELSE new \o CharAt(s, 1) \o Intersperse(SubSeq(s, 2, Len(s)), new)

\* str.replace: every non-overlapping occurrence, scanning left to right; an
\* empty old matches before every character and at the end
RECURSIVE Replace(_, _, _)
Replace(s, old, new) ==
    IF old = "" THEN (IF new = "" THEN s ELSE Intersperse(s, new))
    ELSE LET i == Find(s, old)
         IN  IF i = 0 THEN s
             ELSE SubSeq(s, 1, i - 1) \o new
                  \o Replace(SubSeq(s, i + Len(old), Len(s)), old, new)

\* str.split(sep) with an explicit separator: always at least one field
RECURSIVE Split(_, _)
Split(s, sep) ==
    LET i == Find(s, sep)
    IN  IF i = 0 THEN <<s>>
        ELSE <<SubSeq(s, 1, i - 1)>> \o Split(SubSeq(s, i + Len(sep), Len(s)), sep)

\* sep.join(parts)
RECURSIVE Join(_, _)
Join(sep, parts) ==
    IF parts = <<>> THEN ""
    ELSE IF Len(parts) = 1 THEN parts[1]
    ELSE parts[1] \o sep \o Join(sep, Tail(parts))

IsDigit(c) == c \in {"0", "1", "2", "3", "4", "5", "6", "7", "8", "9"}

(***************************************************************************)
(* Result formatter                                                        *)
(***************************************************************************)
STRENGTH == "[STRENGTH]"
WEAKNESS == "[WEAKNESS]"
NoContent == "<p>No content to display.</p>"

\* lines[1:] of a heading section: stripped, blank lines dropped
RECURSIVE BodyLines(_)
BodyLines(lines) ==
    IF lines = <<>> THEN <<>>
    ELSE LET line == Strip(Head(lines))
         IN  (IF line # "" THEN <<line>> ELSE <<>>) \o BodyLines(Tail(lines))

\* one turn of "for section in sections"
FormatSection(raw) ==
    LET section == Strip(raw)
        lines   == Split(section, "\n")
        heading == Strip(lines[1])
    IN  IF section = "" THEN <<>>
        ELSE IF EndsWith(heading, ":") THEN <<heading>> \o BodyLines(Tail(lines))
        ELSE <<section>>

RECURSIVE FormatSections(_)
FormatSections(sections) ==
    IF sections = <<>> THEN <<>>
    ELSE FormatSection(Head(sections)) \o FormatSections(Tail(sections))

StripMarkup(content) ==
    LET c1 == Replace(content, "", "")
        c2 == Replace(c1, "*", "")
        c3 == Replace(c2, "+", "")
        c4 == Replace(c3, BULLET, "")
        c5 == Replace(c4, "*", "")
        c6 == Replace(c5, STRENGTH, "")
    IN  Replace(c6, WEAKNESS, "")

format_analysis_result(content) ==
    IF content = "" THEN NoContent
    ELSE Join("<br>", FormatSections(Split(StripMarkup(content), "\n\n\n\n")))

(***************************************************************************)
(* Formatter specification: a text is drawn, formatted, and the result is  *)
(* formatted again (the chat page and the results page both feed stored    *)
(* text to format_analysis_result on every re-render).                     *)
(***************************************************************************)
MaxPieces == 4

Pieces == {"a", ":", " ", "\n", "\n\n\n", "*", "[STREN", "GTH]", WEAKNESS}

RECURSIVE PieceStrings(_)
PieceStrings(n) ==
    IF n = 0 THEN {""}
    ELSE LET shorter == PieceStrings(n - 1)
         IN  shorter \cup {s \o p : s \in shorter, p \in Pieces}

FmtInit ==
    /\ fmt_x \in PieceStrings(MaxPieces)
    /\ fmt_out = <<>>

FmtIdle ==
    /\ fmt_x = ""
    /\ fmt_out = <<>>

Format ==
    /\ fmt_out = <<>>
    /\ fmt_out' = <<format_analysis_result(fmt_x)>>
    /\ UNCHANGED fmt_x

Reformat ==
    /\ Len(fmt_out) = 1
    /\ fmt_out' = Append(fmt_out, format_analysis_result(fmt_out[1]))
    /\ UNCHANGED fmt_x

(***************************************************************************)
(* Document extractor                                                      *)
(*                                                                         *)
(* An uploaded file is described by what the libraries do with it: whether *)
(* rasterizing it (pdf2image.convert_from_bytes) or opening it             *)
(* (pdfplumber.open) raises, and per page what OCR returns or raises, what *)
(* extract_text returns (None, or a text) or raises, and whether the       *)
(* one-page rasterization for the preview raises.                          *)
(***************************************************************************)
PDF_MIME == "application/pdf"

Image(page, dpi) == [page |-> page, dpi |-> dpi]

\* the locals text_bits and preview, with the library calls made so far and
\* whether an exception is in flight
Locals(text_bits, preview, calls, exc) ==
    [text_bits |-> text_bits, preview |-> preview, calls |-> calls, exc |-> exc]

\* what process_pdf hands back: the returned pair, the messages put on the
\* page, the library calls made, and whether an exception left the function
Returned(text, preview, messages, calls) ==
    [text |-> text, preview |-> preview, messages |-> messages,
     calls |-> calls, raised |-> FALSE]

\* for i, img in enumerate(images): page k is index i = k - 1
RECURSIVE OcrLoop(_, _, _)
OcrLoop(pages, k, l) ==
    IF k > Len(pages) THEN l
    ELSE LET preview == IF k - 1 < 2 THEN Append(l.preview, Image(k, 200)) ELSE l.preview
             calls   == Append(l.calls, "image_to_string")
         IN  IF pages[k].ocr_raises
             THEN Locals(l.text_bits, preview, calls, TRUE)
             ELSE OcrLoop(pages, k + 1,
                          Locals(Append(l.text_bits, pages[k].ocr_text), preview, calls, FALSE))

\* the try block of the OCR route
OcrRoute(file, l) ==
    LET calls == Append(l.calls, "convert_from_bytes")
    IN  IF file.rasterize_raises
        THEN Locals(l.text_bits, l.preview, calls, TRUE)
        ELSE OcrLoop(file.pages, 1, Locals(l.text_bits, l.preview, calls, FALSE))

\* the inner try block: rasterize one page for the preview, skip on failure
PreviewStep(page, k, l, hasPoppler) ==
    IF hasPoppler /\ k - 1 < 2
    THEN LET calls == Append(l.calls, "convert_from_bytes")
         IN  IF page.preview_raises
             THEN Locals(l.text_bits, l.preview, calls, FALSE)
             ELSE Locals(l.text_bits, Append(l.preview, Image(k, 150)), calls, FALSE)
    ELSE l

\* for i, page in enumerate(pdf.pages)
RECURSIVE TextLoop(_, _, _, _)
TextLoop(pages, k, l, hasPoppler) ==
    IF k > Len(pages) THEN l
    ELSE LET calls == Append(l.calls, "extract_text")
             text  == IF pages[k].extract_none THEN "" ELSE pages[k].extract_text
         IN  IF pages[k].extract_raises
             THEN Locals(l.text_bits, l.preview, calls, TRUE)
             ELSE TextLoop(pages, k + 1,
                           PreviewStep(pages[k], k,
                                       Locals(Append(l.text_bits, text), l.preview, calls, FALSE),
                                       hasPoppler),
                           hasPoppler)

\* the try block of the text-layer route
TextRoute(file, l, hasPoppler) ==
    LET calls == Append(l.calls, "pdfplumber.open")
    IN  IF file.open_raises
        THEN Locals(l.text_bits, l.preview, calls, TRUE)
        ELSE TextLoop(file.pages, 1, Locals(l.text_bits, l.preview, calls, FALSE), hasPoppler)

OcrWarning == "OCR pipeline failed - falling back to text extraction"
ExtractError == "Could not extract anything from this PDF"

\* variant: the handler hands back what was collected before the exception
TextRouteFailedKeepsLocals(l, messages) ==
    Returned(Join("\n\n", l.text_bits), l.preview, Append(messages, ExtractError), l.calls)

\* except Exception of the text-layer route
TextRouteFailed(l, messages) ==
    Returned("", <<>>, Append(messages, ExtractError), l.calls)

\* the rest of process_pdf from "2. Text-only fallback" on
TextFallback(file, l, messages, hasPoppler) ==
    LET t == TextRoute(file, l, hasPoppler)
    IN  IF t.exc THEN TextRouteFailed(t, messages)
        ELSE Returned(Join("\n\n", t.text_bits), t.preview, messages, t.calls)

\* variant: the MIME type of the upload is not looked at
process_pdf_any_type(file, usePdf2image, hasPoppler) ==
    IF ~file.present
    THEN Returned("", <<>>, <<>>, <<>>)
    ELSE LET l0 == Locals(<<>>, <<>>, <<"getvalue">>, FALSE)
             o  == OcrRoute(file, l0)
         IN  IF usePdf2image
             THEN IF o.exc
                  THEN TextFallback(file, o, <<OcrWarning>>, hasPoppler)
                  ELSE Returned(Join("\n\n", o.text_bits), o.preview, <<>>, o.calls)
             ELSE TextFallback(file, l0, <<>>, hasPoppler)

process_pdf(file, usePdf2image, hasPoppler) ==
    IF ~file.present \/ file.type # PDF_MIME
    THEN Returned("", <<>>, <<>>, <<>>)
    ELSE LET l0 == Locals(<<>>, <<>>, <<"getvalue">>, FALSE)
             o  == OcrRoute(file, l0)
         IN  IF usePdf2image
             THEN IF o.exc
                  THEN TextFallback(file, o, <<OcrWarning>>, hasPoppler)
                  ELSE Returned(Join("\n\n", o.text_bits), o.preview, <<>>, o.calls)
             ELSE TextFallback(file, l0, <<>>, hasPoppler)

(***************************************************************************)
(* Extractor specification: the machine's tools and the file are drawn,    *)
(* then the file is extracted, directly or by the upload page.             *)
(***************************************************************************)
MaxPages == 3

\* USE_PDF2IMAGE = HAS_POPPLER and HAS_TESSERACT, cleared if the import fails
Environments == {<<TRUE, TRUE>>, <<FALSE, TRUE>>, <<FALSE, FALSE>>}

PageSet ==
    {[ocr_raises |-> o, ocr_text |-> IF o THEN "" ELSE "scan",
      extract_raises |-> e = "raise", extract_none |-> e = "none",
      extract_text |-> IF e = "text" THEN "layer" ELSE "",
      preview_raises |-> p] :
        o \in BOOLEAN, e \in {"raise", "none", "text"}, p \in BOOLEAN}

PageSeqs(n) == UNION {[1..m -> PageSet] : m \in 0..n}

File(type, rasterize_raises, open_raises, pages) ==
    [present |-> TRUE, type |-> type, rasterize_raises |-> rasterize_raises,
     open_raises |-> open_raises, pages |-> pages]

NoFile ==
    [present |-> FALSE, type |-> "", rasterize_raises |-> FALSE,
     open_raises |-> FALSE, pages |-> <<>>]

PdfFiles(n) ==
    {File(PDF_MIME, r, o, pages) : r \in BOOLEAN, o \in BOOLEAN, pages \in PageSeqs(n)}

OtherFiles == {File("image/png", FALSE, FALSE, pages) : pages \in PageSeqs(1)}

Uploads == {NoFile} \cup OtherFiles \cup PdfFiles(MaxPages)

DocInit ==
    /\ resume_text = ""
    /\ preview_images = <<>>

ExtractInit ==
    /\ \E e \in Environments : USE_PDF2IMAGE = e[1] /\ HAS_POPPLER = e[2]
    /\ uploaded_resume \in Uploads
    /\ extracted = <<>>
    /\ DocInit

PdfIdle ==
    /\ uploaded_resume = NoFile
    /\ extracted = <<>>

\* a direct call of process_pdf on the file
ProcessPdf ==
    /\ extracted' = <<process_pdf(uploaded_resume, USE_PDF2IMAGE, HAS_POPPLER)>>
    /\ UNCHANGED <<uploaded_resume, docVars, envVars>>

\* upload page: "if uploaded_resume:" extract and store the pair
StoreExtraction(r) ==
    IF r.raised THEN UNCHANGED docVars
    ELSE /\ resume_text' = r.text
         /\ preview_images' = r.preview

UploadResume ==
    /\ uploaded_resume.present
    /\ LET r == process_pdf(uploaded_resume, USE_PDF2IMAGE, HAS_POPPLER)
       IN  /\ extracted' = <<r>>
           /\ StoreExtraction(r)
    /\ UNCHANGED <<uploaded_resume, envVars>>


(***************************************************************************)
(* Report generator                                                        *)
(*                                                                         *)
(* report_data is the dict as its sequence of (section, content) items.    *)
(* The document is the list of flowables handed to doc.build; the bytes    *)
(* returned are that laid-out list, and b"" is the empty sequence.         *)
(***************************************************************************)
Flowable(style, text) == [style |-> style, text |-> text]

TitleBlock == <<Flowable("title", "Resume Analysis Report"), Flowable("spacer", "")>>

CleanLine(line) ==
    Strip(Replace(Replace(Replace(line, STRENGTH, ""), WEAKNESS, ""), "", ""))

\* clean_line[1]: IndexError when the line has a single character
IndexRaises(clean_line, i) == i > Len(clean_line)

\* the if/else on clean_line; exc when evaluating the condition raises
LineFlowable(clean_line) ==
    IF StartsWith(clean_line, BULLET)
    THEN [exc |-> FALSE, flowable |-> Flowable("bullet", clean_line)]
    ELSE IF Len(clean_line) > 0 /\ IsDigit(CharAt(clean_line, 1))
    THEN IF IndexRaises(clean_line, 2)
         THEN [exc |-> TRUE, flowable |-> Flowable("none", "")]
         ELSE IF CharAt(clean_line, 2) = "."
         THEN [exc |-> FALSE, flowable |-> Flowable("bullet", clean_line)]
         ELSE [exc |-> FALSE, flowable |-> Flowable("body", clean_line)]
    ELSE [exc |-> FALSE, flowable |-> Flowable("body", clean_line)]

\* for line in lines
RECURSIVE LineLoop(_, _)
LineLoop(lines, elements) ==
    IF lines = <<>> THEN [exc |-> FALSE, elements |-> elements]
    ELSE LET line == Strip(Head(lines))
             f    == LineFlowable(CleanLine(line))
         IN  IF line = "" THEN LineLoop(Tail(lines), elements)
             ELSE IF f.exc THEN [exc |-> TRUE, elements |-> elements]
             ELSE LineLoop(Tail(lines), Append(elements, f.flowable))

\* for section, content in report_data.items()
RECURSIVE SectionLoop(_, _)
SectionLoop(items, elements) ==
    IF items = <<>> THEN [exc |-> FALSE, elements |-> elements]
    ELSE LET section == Head(items)[1]
             content == Head(items)[2]
             body    == LineLoop(Split(content, "\n"),
                                 Append(elements, Flowable("heading", section)))
         IN  IF content = "" \/ Strip(content) = ""
             THEN SectionLoop(Tail(items), elements)
             ELSE IF body.exc THEN body
             ELSE SectionLoop(Tail(items), Append(body.elements, Flowable("spacer", "")))

ReportError == "Error generating PDF report"

generate_enhanced_pdf_report(items, build_raises) ==
    LET laid == SectionLoop(items, TitleBlock)
    IN  IF laid.exc
        THEN [bytes |-> <<>>, messages |-> <<>>, raised |-> TRUE]
        ELSE IF build_raises
        THEN [bytes |-> <<>>, messages |-> <<ReportError>>, raised |-> FALSE]
        ELSE [bytes |-> laid.elements, messages |-> <<>>, raised |-> FALSE]

(***************************************************************************)
(* Report specification: a mapping is drawn and the report is generated;   *)
(* whether doc.build raises is the library's choice.                       *)
(***************************************************************************)
MaxReportPieces == 3

ReportPieces == {"a", "5", ".", " ", "\n", BULLET, STRENGTH}

RECURSIVE ReportTexts(_)
ReportTexts(n) ==
    IF n = 0 THEN {""}
    ELSE LET shorter == ReportTexts(n - 1)
         IN  shorter \cup {s \o p : s \in shorter, p \in ReportPieces}

ReportInputs ==
    {<<>>}
    \cup {<<<<"Quick Overview", c>>>> : c \in ReportTexts(MaxReportPieces)}
    \cup {<<<<"Quick Overview", c>>, <<"Job Matching", d>>>> :
              c \in ReportTexts(1), d \in ReportTexts(1)}

ReportInit ==
    /\ report_data \in ReportInputs
    /\ pdf_report = <<>>

RepIdle ==
    /\ report_data = <<>>
    /\ pdf_report = <<>>

GenerateReport ==
    /\ \E build_raises \in BOOLEAN :
           pdf_report' = <<generate_enhanced_pdf_report(report_data, build_raises)>>
    /\ UNCHANGED report_data

(***************************************************************************)
(* LLM client                                                              *)
(*                                                                         *)
(* A response is what call_groq_api does on one request: it raises, or it  *)
(* returns JSON without "choices", with an empty "choices" list, with a    *)
(* first choice that has no "message", or with a content (None or a text). *)
(***************************************************************************)
API_FAILED == "API_FAILED"
NoKeyMessage == "! No Groq API key found. Please check your .env file."
UnavailableMessage ==
    "API temporarily unavailable. Please refer to manual analysis guidelines below."
DefaultMaxRetries == 3
MinLength == 10

Response(shape, error, content_none, content) ==
    [shape |-> shape, error |-> error, content_none |-> content_none, content |-> content]

Raises(error) == Response("exception", error, FALSE, "")
NoChoices == Response("no_choices", "", FALSE, "")
EmptyChoices == Response("empty_choices", "", FALSE, "")
NoMessage == Response("no_message", "", FALSE, "")
NullContent == Response("content", "", TRUE, "")
Content(text) == Response("content", "", FALSE, text)

\* the try block raises: the call itself, choices[0] or ["message"]
AttemptRaises(resp) == resp.shape \in {"exception", "empty_choices", "no_message"}

\* str(e)
ErrorText(resp) ==
    IF resp.shape = "empty_choices" THEN "list index out of range"
    ELSE IF resp.shape = "no_message" THEN "'message'"
    ELSE resp.error

\* variant: the length test admits a trimmed length of exactly MinLength
AttemptSucceedsAtMinLength(resp) ==
    /\ resp.shape = "content"
    /\ ~resp.content_none
    /\ resp.content # ""
    /\ Len(Strip(resp.content)) >= MinLength

\* if response and "choices" in response: ... if result and len(result.strip()) > 10
AttemptSucceeds(resp) ==
    /\ resp.shape = "content"
    /\ ~resp.content_none
    /\ resp.content # ""
    /\ Len(Strip(resp.content)) > MinLength

\* what a call hands back: the returned string, the prompts sent, the error
\* texts recorded, the messages put on the page and the new _last_groq_error
Outcome(result, requests, errors, messages, last_error) ==
    [result |-> result, requests |-> requests, errors |-> errors,
     messages |-> messages, last_error |-> last_error]

FailureHints ==
    <<"This could be due to:",
      "API rate limits - please wait a few minutes and try again",
      "Network connectivity issues",
      "Invalid API key - check your .env file",
      "Model availability issues",
      "Switching to manual analysis guidelines...">>

\* for attempt in range(max_retries), from the given attempt on
RECURSIVE RetryLoop(_, _, _, _, _)
RetryLoop(attempt, max_retries, prompt, responses, acc) ==
    IF attempt >= max_retries
    THEN [acc EXCEPT !.result = API_FAILED]
    ELSE LET resp == responses[attempt + 1]
             sent == [acc EXCEPT !.requests = Append(@, prompt)]
             err  == "Attempt " \o ToString(attempt + 1) \o ": " \o ErrorText(resp)
             rec  == [sent EXCEPT !.errors = Append(@, err), !.last_error = err]
         IN  IF AttemptRaises(resp)
             THEN IF attempt < max_retries - 1
                  THEN RetryLoop(attempt + 1, max_retries, prompt, responses,
                                 [rec EXCEPT !.messages = Append(@,
                                      "Retrying analysis (attempt " \o ToString(attempt + 2)
                                      \o "/" \o ToString(max_retries) \o ")...")])
                  ELSE [rec EXCEPT !.result = API_FAILED,
                                   !.messages = @ \o <<"Analysis failed: " \o err>>
                                                  \o FailureHints]
             ELSE IF AttemptSucceeds(resp)
             THEN [sent EXCEPT !.result = Strip(resp.content)]
             ELSE RetryLoop(attempt + 1, max_retries, prompt, responses, sent)

\* the two early returns
KeyMissing(key) == key = ""

KnownUnreachable(tested, working) == tested /\ ~working

\* variant: the loop starts one attempt late
analyze_from_second_attempt(prompt, max_retries, key, tested, working, last_error, responses) ==
    IF KeyMissing(key)
    THEN Outcome(NoKeyMessage, <<>>, <<>>, <<>>, last_error)
    ELSE IF KnownUnreachable(tested, working)
    THEN Outcome(UnavailableMessage, <<>>, <<>>,
                 <<"API connection issues detected. Showing manual analysis guidelines.">>,
                 last_error)
    ELSE RetryLoop(1, max_retries, prompt, responses,
                   Outcome("", <<>>, <<>>, <<>>, last_error))

analyze_resume_with_llm(prompt, max_retries, key, tested, working, last_error, responses) ==
    IF KeyMissing(key)
    THEN Outcome(NoKeyMessage, <<>>, <<>>, <<>>, last_error)
    ELSE IF KnownUnreachable(tested, working)
    THEN Outcome(UnavailableMessage, <<>>, <<>>,
                 <<"API connection issues detected. Showing manual analysis guidelines.">>,
                 last_error)
    ELSE RetryLoop(0, max_retries, prompt, responses,
                   Outcome("", <<>>, <<>>, <<>>, last_error))

\* a call as the session records it: the arguments, how the endpoint answered
\* and what came back
Call(prompt, max_retries, responses, out) ==
    [prompt |-> prompt, max_retries |-> max_retries, responses |-> responses, out |-> out]

(***************************************************************************)
(* Static texts: the instruction template of each analysis kind, in the    *)
(* order of the analysis_options dict, and the manual guidance texts       *)
(***************************************************************************)
Option(name, description, prompt) ==
    [name |-> name, description |-> description, prompt |-> prompt]

analysis_options == <<
    Option("Quick Overview",
           "Get a rapid summary of the resume's key strengths and areas",
           "\n"
           \o "        Provide a comprehensive overview of this resume including key strengths and notable areas for improvement.\n"
           \o "        Focus on the candidate's experience, skills, and overall presentation.\n"
           \o "        "),
    Option("Issues Analysis",
           "Identify specific weaknesses and improvement areas",
           "\n"
           \o "        Analyze this resume and identify specific issues, weaknesses, and areas that need improvement.\n"
           \o "        For each issue identified, mark it with [WEAKNESS] and provide specific suggestions for enhancement.\n"
           \o "        "),
    Option("Enhancement Tips",
           "Get actionable tips to improve the resume",
           "\n"
           \o "        Provide specific, actionable tips to enhance this resume.\n"
           \o "        Mark positive aspects with [STRENGTH] and improvement suggestions with [WEAKNESS].\n"
           \o "        Include formatting, content, and presentation recommendations.\n"
           \o "        "),
    Option("Job Matching",
           "Analyze how well the resume matches the job requirements",
           "\n"
           \o "        Compare this resume against the job description and analyze the match.\n"
           \o "        Mark matching qualifications with [STRENGTH] and gaps with [WEAKNESS].\n"
           \o "        Provide a match percentage and specific recommendations.\n"
           \o "        "),
    Option("Complete Analysis",
           "Comprehensive analysis covering all aspects",
           "\n"
           \o "        Provide a complete analysis of this resume, covering all aspects including strengths, weaknesses, and job matching.\n"
           \o "        ")
>>

Tip(name, text) == [name |-> name, text |-> text]

provide_manual_analysis_tips == <<
    Tip("Quick Overview",
        "\n"
        \o "        Your resume has been uploaded and processed successfully.\n"
        \o "        Here are some general guidelines to review:\n"
        \o "        - Your contact information is prominent and current.\n"
        \o "        - Your experience is listed in reverse chronological order.\n"
        \o "        - Your skills section matches the job requirements.\n"
        \o "        - Look for quantifiable achievements and results.\n"
        \o "        "),
    Tip("Issues Analysis",
        "\n"
        \o "        Common resume issues to check manually:\n"
        \o "        - Formatting problems: Inconsistent fonts, sizes, or spacing.\n"
        \o "        - Content issues: Typos, vague job descriptions, missing achievements.\n"
        \o "        - Structure problems: No clear summary, poor organization.\n"
        \o "        "),
    Tip("Enhancement Tips",
        "\n"
        \o "        Focus on these improvement areas:\n"
        \o "        - Add quantifiable achievements.\n"
        \o "        - Use action verbs to start bullet points.\n"
        \o "        - Customize your resume for each job application.\n"
        \o "        - Include relevant keywords from the job posting.\n"
        \o "        "),
    Tip("Job Matching",
        "\n"
        \o "        To manually assess job matching:\n"
        \o "        - Compare your resume against the job posting.\n"
        \o "        - Highlight matching skills and experience.\n"
        \o "        - Identify gaps: Missing technical skills, lack of industry experience.\n"
        \o "        ")
>>

quick_questions == <<
    "What are the strongest points of my resume?",
    "What skills should I highlight more?",
    "How can I improve my resume summary?",
    "What experience should I emphasize?",
    "Are there any red flags in my resume?">>

analysis_steps == <<
    <<"Quick Overview", "overview">>,
    <<"Issues Analysis", "issues">>,
    <<"Enhancement Tips", "tips">>,
    <<"Job Matching", "matching">>>>

COMPLETE == "Complete Analysis"
UPLOAD_PAGE == "Upload & Analyze"
RESULTS_PAGE == "Results"
ASSISTANT_PAGE == "Your AI Assistant"
HELP_PAGE == "Help"
menu_options == <<UPLOAD_PAGE, RESULTS_PAGE, ASSISTANT_PAGE, HELP_PAGE>>

ResumeCap == 4000
JobCap == 1000

UpperCase == "ABCDEFGHIJKLMNOPQRSTUVWXYZ"
LowerCase == "abcdefghijklmnopqrstuvwxyz"

\* str.lower
RECURSIVE Lower(_)
Lower(s) ==
    IF s = "" THEN ""
    ELSE LET c == CharAt(s, 1)
             i == Find(UpperCase, c)
         IN  (IF i > 0 THEN CharAt(LowerCase, i) ELSE c) \o Lower(SubSeq(s, 2, Len(s)))

\* s[:n]
\* variant: the slice keeps one character more than the cap
PrefixInclusive(s, n) == SubSeq(s, 1, IF Len(s) <= n THEN Len(s) ELSE n + 1)

Prefix(s, n) == SubSeq(s, 1, IF Len(s) < n THEN Len(s) ELSE n)

\* dict lookups: analysis_options.get(kind, {}) and manual_tips.get(kind, default)
HasOption(kind) == \E i \in 1..Len(analysis_options) : analysis_options[i].name = kind

OptionPrompt(kind) ==
    LET i == CHOOSE j \in 1..Len(analysis_options) : analysis_options[j].name = kind
    IN  analysis_options[i].prompt

ManualTip(kind) ==
    LET hits == {i \in 1..Len(provide_manual_analysis_tips) :
                    provide_manual_analysis_tips[i].name = kind}
    IN  IF hits = {} THEN provide_manual_analysis_tips[1].text
        ELSE provide_manual_analysis_tips[CHOOSE i \in hits : TRUE].text

\* [k for k in analysis_options.keys() if step_key in k.lower().replace(" ", "")]
StepOptions(step_key) ==
    SelectSeq(analysis_options,
              LAMBDA o : Contains(Replace(Lower(o.name), " ", ""), step_key))

\* the matching keys of every step of the Complete Analysis
matching_keys == [i \in 1..Len(analysis_steps) |-> StepOptions(analysis_steps[i][2])]

Closing == "Please provide detailed analysis with specific examples and actionable recommendations."

\* the f-string of the results page; margin is the indentation of its lines
FullPrompt(template, text, jd, margin) ==
    template \o "\n" \o margin \o "Resume Content:\n"
    \o margin \o Prefix(text, ResumeCap) \o "\n"
    \o margin \o "Job Description:\n"
    \o margin \o jd \o "\n"
    \o margin \o Closing

CompleteMargin == "                    "
SingleMargin == "                "

\* the f-string of the assistant page
ChatPrompt(text, jd, question) ==
    "\nYou are a professional resume consultant. Answer the user's question based ONLY on the following resume content.\n"
    \o "Be specific, actionable, and helpful. Use examples from the resume when possible.\n"
    \o "Resume Content:\n" \o Prefix(text, ResumeCap) \o "\n"
    \o "Job Context (if provided):\n"
    \o (IF jd # "" THEN Prefix(jd, JobCap) ELSE "No specific job provided") \o "\n"
    \o "User Question: " \o question \o "\n"
    \o "Provide a detailed, professional response with specific recommendations.\n"

\* one thing the script run did: a message, a widget or a panel put on the
\* page, or a step of the LLM client
Ev(op, text) == [op |-> op, text |-> text]

RECURSIVE Notices(_)
Notices(messages) ==
    IF messages = <<>> THEN <<>>
    ELSE <<Ev("notice", Head(messages))>> \o Notices(Tail(messages))

Button(label) == Ev("button", label)

Shown(log, e) == \E i \in 1..Len(log) : log[i] = e

(***************************************************************************)
(* Script runs                                                             *)
(*                                                                         *)
(* Streamlit runs the whole script on every event.  A run is the startup   *)
(* code (the one-time API probe), the sidebar, and the body of the active  *)
(* page.  A body is given as the view it leaves behind: the session fields *)
(* it wrote and the log of what it did.  Widgets that a run does not       *)
(* render lose their value.                                                *)
(***************************************************************************)
\* variant: the probe runs on every run of the script
ProbeDueEveryRun(key, tested) == key # ""

ProbeDue(key, tested) == key # "" /\ ~tested

ProbeLog(probe_raises) ==
    (IF groq_api_key = ""
     THEN <<Ev("error", "Missing Groq API key in .env file")>> ELSE <<>>)
    \o (IF ProbeDue(groq_api_key, api_tested)
        THEN <<Ev("probe", "Hello"),
               IF probe_raises THEN Ev("warning", "API connection issue")
               ELSE Ev("success", "API connection successful!")>>
        ELSE <<>>)

\* the session as a run finds it, with the outputs of the last run cleared
Base(pre) ==
    [log |-> pre, calls |-> <<>>, report |-> <<>>, pdf |-> <<>>, extracted |-> <<>>,
     last_error |-> last_groq_error, page |-> active_page, rerun |-> FALSE,
     selected |-> selected_analysis, text |-> resume_text, images |-> preview_images,
     file |-> NoFile, jd_input |-> "", jd |-> job_description,
     chat |-> chat_history, question |-> current_question]

\* switch to another page and st.rerun()
GoTo(v, page) == [v EXCEPT !.page = page, !.rerun = TRUE]

\* variant: the click handler tests the resume text alone
RECURSIVE ButtonLoopResumeOnly(_, _, _)
ButtonLoopResumeOnly(i, clicked, v) ==
    IF i > Len(analysis_options) THEN v
    ELSE LET kind == analysis_options[i].name
             w    == [v EXCEPT !.log = Append(@, Button(kind))]
         IN  IF clicked # kind THEN ButtonLoopResumeOnly(i + 1, clicked, w)
             ELSE IF w.text # ""
             THEN GoTo([w EXCEPT !.selected = kind], RESULTS_PAGE)
             ELSE ButtonLoopResumeOnly(i + 1, clicked,
                    [w EXCEPT !.log = Append(@, Ev("error", "Please upload a resume first"))])

\* analysis buttons from the given one on; a click on button i is handled
\* when the loop reaches it
RECURSIVE ButtonLoop(_, _, _)
ButtonLoop(i, clicked, v) ==
    IF i > Len(analysis_options) THEN v
    ELSE LET kind == analysis_options[i].name
             w    == [v EXCEPT !.log = Append(@, Button(kind))]
         IN  IF clicked # kind THEN ButtonLoop(i + 1, clicked, w)
             ELSE IF w.text # "" /\ w.jd # ""
             THEN GoTo([w EXCEPT !.selected = kind], RESULTS_PAGE)
             ELSE ButtonLoop(i + 1, clicked,
                    [w EXCEPT !.log = @
                        \o (IF w.text = ""
                            THEN <<Ev("error", "Please upload a resume first")>> ELSE <<>>)
                        \o (IF w.jd = ""
                            THEN <<Ev("error", "Please provide a job description")>> ELSE <<>>)])

\* body of the upload page
UploadView(pre, file, jd, clicked) ==
    LET r      == process_pdf(file, USE_PDF2IMAGE, HAS_POPPLER)
        stored == file.present /\ ~r.raised
        text   == IF stored THEN r.text ELSE resume_text
        images == IF stored THEN r.preview ELSE preview_images
        upload == IF ~file.present THEN <<>>
                  ELSE Notices(r.messages)
                       \o <<IF r.text # ""
                            THEN Ev("success", "Resume uploaded and processed successfully!")
                            ELSE Ev("error", "Could not extract text from the PDF.")>>
        shown  == IF images = <<>> THEN <<>>
                  ELSE <<Ev("preview", ToString(Len(SubSeq(images, 1,
                                 IF Len(images) < 2 THEN Len(images) ELSE 2))))>>
    IN  ButtonLoop(1, clicked,
            [Base(pre \o upload \o shown) EXCEPT
                !.file = file, !.extracted = IF file.present THEN <<r>> ELSE <<>>,
                !.text = text, !.images = images, !.jd_input = jd, !.jd = jd])

\* a click on a button is handled only if this run rendered the button
Follow(v, clicked, label, page) ==
    IF clicked = label THEN GoTo(v, page) ELSE v

CallLog(name, out) ==
    <<Ev("call", name)>> \o Notices(out.messages) \o <<Ev("return", out.result)>>

\* for i, (step_name, step_key) in enumerate(analysis_steps), from step i on
RECURSIVE CompleteLoop(_, _, _, _, _)
CompleteLoop(i, scripts, v, tested, working) ==
    IF i > Len(analysis_steps) THEN v
    ELSE LET step_name == analysis_steps[i][1]
             options   == matching_keys[i]
             progress  == <<Ev("status", "Analyzing: " \o step_name \o "..."),
                            Ev("progress", ToString(i) \o "/"
                                           \o ToString(Len(analysis_steps)))>>
             prompt    == FullPrompt(options[1].prompt, resume_text, job_description,
                                     CompleteMargin)
             out       == analyze_resume_with_llm(prompt, DefaultMaxRetries, groq_api_key,
                                                  tested, working, v.last_error, scripts[i])
         IN  IF options = <<>>
             THEN CompleteLoop(i + 1, scripts, [v EXCEPT !.log = @ \o progress],
                               tested, working)
             ELSE CompleteLoop(i + 1, scripts,
                    [v EXCEPT !.log = @ \o progress \o CallLog(step_name, out)
                                        \o <<Ev("panel", format_analysis_result(out.result))>>,
                              !.calls = Append(@, Call(prompt, DefaultMaxRetries,
                                                       scripts[i], out)),
                              !.report = Append(@, <<step_name, out.result>>),
                              !.last_error = out.last_error],
                    tested, working)

\* the report block: generate, offer the download; the run dies if the
\* generator raises
ReportBlock(v, build_raises) ==
    LET pdf == generate_enhanced_pdf_report(v.report, build_raises)
        w   == [v EXCEPT !.pdf = <<pdf>>]
    IN  IF pdf.raised THEN [w EXCEPT !.log = Append(@, Ev("exception", "IndexError"))]
        ELSE [w EXCEPT !.log = @ \o Notices(pdf.messages)
                               \o (IF pdf.bytes # <<>> THEN <<Button("Download")>> ELSE <<>>)]

Crashed(v) == v.pdf # <<>> /\ v.pdf[1].raised

\* the two buttons under every analysis
Footer(v, clicked) ==
    IF Crashed(v) THEN v
    ELSE LET w == [v EXCEPT !.log = Append(@, Button("Back to Upload"))]
         IN  IF clicked = "Back to Upload" THEN GoTo(w, UPLOAD_PAGE)
             ELSE Follow([w EXCEPT !.log = Append(@, Button("Ask AI Assistant"))],
                         clicked, "Ask AI Assistant", ASSISTANT_PAGE)

CompleteView(v, clicked, scripts, build_raises, tested, working) ==
    Footer(ReportBlock(CompleteLoop(1, scripts, v, tested, working), build_raises), clicked)

\* if result == "API_FAILED": show the manual guidance instead
Substitute(kind, result) ==
    IF result = API_FAILED THEN ManualTip(kind) ELSE result

RetryOffered(result) ==
    result = API_FAILED \/ Contains(result, "API temporarily unavailable")

SingleView(v, clicked, scripts, build_raises, tested, working) ==
    LET kind   == selected_analysis
        prompt == FullPrompt(OptionPrompt(kind), resume_text, job_description, SingleMargin)
        out    == analyze_resume_with_llm(prompt, DefaultMaxRetries, groq_api_key,
                                          tested, working, v.last_error, scripts[1])
        result == Substitute(kind, out.result)
        w      == [v EXCEPT
                     !.log = @ \o CallLog(kind, out)
                         \o (IF out.result = API_FAILED
                             THEN <<Ev("warning",
                                 "API temporarily unavailable. Showing manual analysis guidelines:")>>
                             ELSE <<>>)
                         \o <<Ev("panel", format_analysis_result(result))>>
                         \o (IF RetryOffered(result)
                             THEN <<Button("Retry AI Analysis")>> ELSE <<>>),
                     !.calls = <<Call(prompt, DefaultMaxRetries, scripts[1], out)>>,
                     !.last_error = out.last_error]
    IN  IF ~HasOption(kind) THEN Footer(v, clicked)
        ELSE IF RetryOffered(result) /\ clicked = "Retry AI Analysis"
        THEN [w EXCEPT !.rerun = TRUE]
        ELSE Footer(ReportBlock([w EXCEPT !.report = <<<<kind, result>>>>], build_raises),
                    clicked)

\* body of the results page
ResultsView(pre, clicked, scripts, build_raises, tested, working) ==
    LET v    == Base(pre)
        back == Button("Go to Upload")
    IN  IF resume_text = ""
        THEN Follow([v EXCEPT !.log = @ \o <<Ev("warning", "No resume data found."), back>>],
                    clicked, "Go to Upload", UPLOAD_PAGE)
        ELSE IF job_description = ""
        THEN Follow([v EXCEPT !.log = @ \o <<Ev("warning", "No job description found."), back>>],
                    clicked, "Go to Upload", UPLOAD_PAGE)
        ELSE IF selected_analysis = ""
        THEN Follow([v EXCEPT !.log = @ \o <<Ev("info", "No analysis type selected."), back>>],
                    clicked, "Go to Upload", UPLOAD_PAGE)
        ELSE IF selected_analysis = COMPLETE
        THEN CompleteView([v EXCEPT !.log = Append(@, Ev("title", COMPLETE))],
                          clicked, scripts, build_raises, tested, working)
        ELSE SingleView([v EXCEPT !.log = Append(@, Ev("title", selected_analysis))],
                        clicked, scripts, build_raises, tested, working)

DisplayCap == 10

Turn(role, content) == [role |-> role, content |-> content]

\* for msg in reversed(st.session_state.chat_history[-10:])
RECURSIVE HistoryLog(_)
HistoryLog(turns) ==
    IF turns = <<>> THEN <<>>
    ELSE LET msg == turns[Len(turns)]
         IN  <<IF msg.role = "user" THEN Ev("user", msg.content)
               ELSE Ev("assistant", format_analysis_result(msg.content))>>
             \o HistoryLog(SubSeq(turns, 1, Len(turns) - 1))

\* variant: the slice starts one turn early
LastTurnsInclusive(chat, n) ==
    SubSeq(chat, IF Len(chat) > n THEN Len(chat) - n ELSE 1, Len(chat))

LastTurns(chat, n) ==
    SubSeq(chat, IF Len(chat) > n THEN Len(chat) - n + 1 ELSE 1, Len(chat))

RECURSIVE QuickLoop(_, _, _)
QuickLoop(i, clicked, v) ==
    IF i > Len(quick_questions) THEN v
    ELSE QuickLoop(i + 1, clicked,
            [v EXCEPT !.log = Append(@, Button(quick_questions[i])),
                      !.question = IF clicked = quick_questions[i]
                                   THEN quick_questions[i] ELSE @])

\* body of the assistant page; user_question is what the text input returns
AssistantView(pre, clicked, user_question, scripts, tested, working) ==
    LET v      == Base(pre)
        q      == QuickLoop(1, clicked, v)
        w      == [q EXCEPT !.log = @ \o <<Button("Ask"), Button("Clear")>>]
        prompt == ChatPrompt(resume_text, job_description, user_question)
        out    == analyze_resume_with_llm(prompt, DefaultMaxRetries, groq_api_key,
                                          tested, working, w.last_error, scripts[1])
    IN  IF resume_text = ""
        THEN Follow([v EXCEPT !.log = @ \o <<Ev("warning", "Please upload a resume first"),
                                             Button("Go to Upload")>>],
                    clicked, "Go to Upload", UPLOAD_PAGE)
        ELSE IF clicked = "Clear"
        THEN [w EXCEPT !.chat = <<>>, !.question = "", !.rerun = TRUE]
        ELSE IF (clicked = "Ask" \/ w.question # "") /\ Strip(user_question) # ""
        THEN [w EXCEPT !.log = @ \o CallLog("chat", out),
                       !.calls = <<Call(prompt, DefaultMaxRetries, scripts[1], out)>>,
                       !.last_error = out.last_error,
                       !.chat = @ \o <<Turn("user", user_question),
                                       Turn("assistant", out.result)>>,
                       !.question = "",
                       !.rerun = TRUE]
        ELSE [w EXCEPT !.log = @ \o HistoryLog(LastTurns(w.chat, DisplayCap))]

HelpView(pre) == [Base(pre) EXCEPT !.log = Append(@, Ev("title", "User Guide"))]

\* the body of the active page
PageView(pre, clicked, file, jd, user_question, scripts, build_raises, tested, working) ==
    IF active_page = UPLOAD_PAGE THEN UploadView(pre, file, jd, clicked)
    ELSE IF active_page = RESULTS_PAGE
    THEN ResultsView(pre, clicked, scripts, build_raises, tested, working)
    ELSE IF active_page = ASSISTANT_PAGE
    THEN AssistantView(pre, clicked, user_question, scripts, tested, working)
    ELSE HelpView(pre)

(***************************************************************************)
(* Session specification                                                   *)
(*                                                                         *)
(* The user acts on a widget of the page on screen (an event), Streamlit   *)
(* then runs the script once with that event; st.rerun() makes it run      *)
(* again with no event.  What the endpoint answers during a run, whether   *)
(* the probe and doc.build raise, are drawn at each run.                   *)
(***************************************************************************)
\* the chat history holds at most MaxTurns turns (a question and its answer
\* are two turns)
MaxTurns == 2

GoodAnswer == Content("OK, detailed analysis...")

TextPage ==
    [ocr_raises |-> FALSE, ocr_text |-> "scan", extract_raises |-> FALSE,
     extract_none |-> FALSE, extract_text |-> "layer", preview_raises |-> FALSE]

BlankPage ==
    [ocr_raises |-> TRUE, ocr_text |-> "", extract_raises |-> FALSE,
     extract_none |-> TRUE, extract_text |-> "", preview_raises |-> FALSE]

SessionFiles ==
    {NoFile,
     File(PDF_MIME, FALSE, FALSE, <<TextPage>>),
     File(PDF_MIME, FALSE, FALSE, <<BlankPage>>)}

\* the session runs on a machine with poppler and without tesseract
SessionEnvironments == {<<FALSE, TRUE>>}

JobTexts == {"", "Data analyst: SQL and Python"}

TextInputs(question) == {"", "How can I improve?"} \cup {question}

QuickPicks == {1}

\* the LLM calls the body of the active page is about to make
CallsDue ==
    IF active_page = RESULTS_PAGE /\ resume_text # "" /\ job_description # ""
       /\ selected_analysis # ""
    THEN IF selected_analysis = COMPLETE THEN Len(analysis_steps) ELSE 1
    ELSE IF active_page = ASSISTANT_PAGE /\ resume_text # "" THEN 1
    ELSE 0

\* the endpoint is up for the first calls of a run and down from some call on
Up == <<GoodAnswer, GoodAnswer, GoodAnswer>>

Down == <<Raises("timeout"), Raises("timeout"), Raises("timeout")>>

ScriptChoices ==
    {[i \in 1..CallsDue |-> IF i < k THEN Up ELSE Down] : k \in 1..(CallsDue + 1)}

BuildChoices == IF active_page = RESULTS_PAGE /\ CallsDue > 0 THEN BOOLEAN ELSE {FALSE}

ProbeChoices == IF ProbeDue(groq_api_key, api_tested) THEN BOOLEAN ELSE {FALSE}

SessionInit ==
    /\ groq_api_key \in {"", "gsk_key"}
    /\ api_tested = FALSE
    /\ api_working = TRUE
    /\ last_groq_error = ""
    /\ backend = <<>>
    /\ llm_calls = <<>>
    /\ started = FALSE
    /\ active_page = UPLOAD_PAGE
    /\ rerun = FALSE
    /\ pending = <<>>
    /\ selected_analysis = ""
    /\ job_desc_input = ""
    /\ job_description = ""
    /\ chat_history = <<>>
    /\ current_question = ""
    /\ run_log = <<>>

\* load the key and, once per session, probe the API
Prologue(probe_raises) ==
    /\ api_tested' = (IF ProbeDue(groq_api_key, api_tested) THEN TRUE ELSE api_tested)
    /\ api_working' = (IF ProbeDue(groq_api_key, api_tested) THEN ~probe_raises
                       ELSE api_working)
    /\ UNCHANGED <<groq_api_key, envVars, fmtVars, backend>>

\* the session after the run
Commit(v) ==
    /\ started' = TRUE
    /\ pending' = <<>>
    /\ run_log' = v.log
    /\ llm_calls' = v.calls
    /\ report_data' = v.report
    /\ pdf_report' = v.pdf
    /\ extracted' = v.extracted
    /\ last_groq_error' = v.last_error
    /\ active_page' = v.page
    /\ rerun' = v.rerun
    /\ selected_analysis' = v.selected
    /\ resume_text' = v.text
    /\ preview_images' = v.images
    /\ uploaded_resume' = v.file
    /\ job_desc_input' = v.jd_input
    /\ job_description' = v.jd
    /\ chat_history' = v.chat
    /\ current_question' = v.question

\* a widget event: the sidebar choice, the button clicked, and the values
\* the widgets of the page hold when the script runs
Event(page, clicked, file, jd, question) ==
    [page |-> page, clicked |-> clicked, file |-> file, jd |-> jd, question |-> question]

\* the script runs with no event at startup and after st.rerun(): the
\* widgets keep their values
NoEvents ==
    {Event("", "", uploaded_resume, job_desc_input, q) : q \in TextInputs(current_question)}

EventsDue == IF pending # <<>> THEN {pending[1]} ELSE NoEvents

\* the sidebar: the page is switched before any body runs
SidebarView(pre, e, scripts, build_raises, tested, working) ==
    IF e.page # "" /\ e.page # active_page THEN GoTo(Base(pre), e.page)
    ELSE PageView(pre, e.clicked, e.file, e.jd, e.question, scripts, build_raises,
                  tested, working)

\* one run of the script: at startup, on the pending widget event, or
\* after st.rerun(); the chat history is kept within max_turns turns
Script(max_turns) ==
    /\ ~started \/ rerun \/ pending # <<>>
    /\ \E p \in ProbeChoices, e \in EventsDue, scripts \in ScriptChoices, b \in BuildChoices :
        /\ Prologue(p)
        /\ \E tested \in {api_tested'}, working \in {api_working'} :
               \E v \in {SidebarView(ProbeLog(p), e, scripts, b, tested, working)} :
                   /\ Len(v.chat) <= max_turns
                   /\ Commit(v)

RunScript == Script(MaxTurns)

Idle == started /\ ~rerun /\ pending = <<>>

\* the user acts on a widget of the page on screen
Fire(e) ==
    /\ Idle
    /\ pending' = <<e>>
    /\ UNCHANGED <<fmtVars, envVars, pdfVars, docVars, repVars, apiVars, llmVars,
                   started, active_page, rerun, selected_analysis, uiVars>>

Navigate ==
    \E page \in {menu_options[i] : i \in 1..Len(menu_options)} \ {active_page} :
        Fire(Event(page, "", NoFile, "", ""))

ChooseFile ==
    /\ active_page = UPLOAD_PAGE
    /\ \E file \in SessionFiles : Fire(Event("", "", file, job_desc_input, ""))

TypeJobDescription ==
    /\ active_page = UPLOAD_PAGE
    /\ \E jd \in JobTexts : Fire(Event("", "", uploaded_resume, jd, ""))

ClickAnalysis ==
    /\ active_page = UPLOAD_PAGE
    /\ \E i \in 1..Len(analysis_options) :
           /\ Shown(run_log, Button(analysis_options[i].name))
           /\ Fire(Event("", analysis_options[i].name, uploaded_resume, job_desc_input, ""))

ResultsButtons ==
    {"Go to Upload", "Retry AI Analysis", "Download", "Back to Upload", "Ask AI Assistant"}

ResultsClick ==
    /\ active_page = RESULTS_PAGE
    /\ \E label \in ResultsButtons :
           /\ Shown(run_log, Button(label))
           /\ Fire(Event("", label, NoFile, "", ""))

Ask ==
    /\ active_page = ASSISTANT_PAGE
    /\ Shown(run_log, Button("Ask"))
    /\ \E q \in TextInputs(current_question) : Fire(Event("", "Ask", NoFile, "", q))

QuickQuestion ==
    /\ active_page = ASSISTANT_PAGE
    /\ \E i \in QuickPicks :
           /\ Shown(run_log, Button(quick_questions[i]))
           /\ \E q \in {"", quick_questions[i]} :
                  Fire(Event("", quick_questions[i], NoFile, "", q))

ClearChat ==
    /\ active_page = ASSISTANT_PAGE
    /\ Shown(run_log, Button("Clear"))
    /\ Fire(Event("", "Clear", NoFile, "", ""))

LeaveAssistant ==
    /\ active_page = ASSISTANT_PAGE
    /\ Shown(run_log, Button("Go to Upload"))
    /\ Fire(Event("", "Go to Upload", NoFile, "", ""))

Next ==
    \/ RunScript
    \/ Navigate
    \/ ChooseFile
    \/ TypeJobDescription
    \/ ClickAnalysis
    \/ ResultsClick
    \/ Ask
    \/ QuickQuestion
    \/ ClearChat
    \/ LeaveAssistant

vars ==
    <<fmt_x, fmt_out, USE_PDF2IMAGE, HAS_POPPLER, uploaded_resume, extracted,
      resume_text, preview_images, report_data, pdf_report, groq_api_key, api_tested,
      api_working, last_groq_error, backend, llm_calls, started, active_page, rerun,
      pending, selected_analysis, job_desc_input, job_description, chat_history,
      current_question, run_log>>

Init ==
    /\ SessionInit
    /\ \E e \in SessionEnvironments : USE_PDF2IMAGE = e[1] /\ HAS_POPPLER = e[2]
    /\ PdfIdle /\ DocInit /\ RepIdle /\ FmtIdle

Spec == Init /\ [][Next]_vars

(***************************************************************************)
(* Prompt specification: the session of the upload and results pages with  *)
(* resumes whose text is as long as the cap of the prompt, or longer       *)
(***************************************************************************)
MaxOverflow == 1

RECURSIVE Double(_, _)
Double(s, k) == IF k = 0 THEN s ELSE Double(s \o s, k - 1)

\* a text in which the characters at two places a cap apart differ
Ruler == Double("0123456789A", 10)

LongText(n) == SubSeq(Ruler, 1, n)

LongTexts ==
    {LongText(n) : n \in (ResumeCap - MaxOverflow)..(ResumeCap + MaxOverflow)}
    \cup {LongText(2 * ResumeCap)}

LongFiles ==
    {File(PDF_MIME, FALSE, FALSE, <<[TextPage EXCEPT !.extract_text = t]>>) : t \in LongTexts}

ChooseLongFile ==
    /\ active_page = UPLOAD_PAGE
    /\ \E file \in LongFiles : Fire(Event("", "", file, job_desc_input, ""))

PromptNext ==
    \/ RunScript
    \/ ChooseLongFile
    \/ TypeJobDescription
    \/ ClickAnalysis
    \/ ResultsClick

SpecPrompt == Init /\ [][PromptNext]_vars

(***************************************************************************)
(* Chat specification: the session of the upload and assistant pages, with *)
(* a chat history longer than what the page displays                       *)
(***************************************************************************)
MaxChatTurns == 12

ChatScript == Script(MaxChatTurns)

GoToAssistant ==
    /\ active_page = UPLOAD_PAGE
    /\ resume_text # ""
    /\ Fire(Event(ASSISTANT_PAGE, "", NoFile, "", ""))

ChatNext ==
    \/ ChatScript
    \/ ChooseFile
    \/ GoToAssistant
    \/ Ask
    \/ QuickQuestion
    \/ ClearChat

SpecChat == Init /\ [][ChatNext]_vars

(***************************************************************************)
(* LLM client specification: the credential, the probe result and the      *)
(* answers of the endpoint are drawn, then analyze_resume_with_llm is      *)
(* called directly with some max_retries.                                  *)
(***************************************************************************)
MaxRetries == 3

\* an answer of the model that quotes the notice of the degraded mode
EchoedNotice == Content("Avoid 'API temporarily unavailable' pages.")

Responses ==
    {Raises("timeout"), Raises("rate limit"), NoChoices, EmptyChoices, NoMessage,
     NullContent, Content(""), Content("  too short \n"), Content(API_FAILED),
     Content(" Good resume\n"), GoodAnswer, EchoedNotice}

\* the flag is set by the first run, and only when a key is configured
LlmInit ==
    /\ \E c \in {<<"", FALSE, TRUE>>, <<"gsk_key", TRUE, TRUE>>, <<"gsk_key", TRUE, FALSE>>} :
           /\ groq_api_key = c[1]
           /\ api_tested = c[2]
           /\ api_working = c[3]
    /\ backend \in [1..MaxRetries -> Responses]
    /\ last_groq_error = ""
    /\ llm_calls = <<>>

DirectPrompt == "Analyze this resume"

Analyze ==
    /\ \E max_retries \in 1..MaxRetries :
           LET out == analyze_resume_with_llm(DirectPrompt, max_retries, groq_api_key,
                                              api_tested, api_working, last_groq_error,
                                              backend)
           IN  /\ llm_calls' = <<Call(DirectPrompt, max_retries, backend, out)>>
               /\ last_groq_error' = out.last_error
    /\ UNCHANGED <<apiVars, backend>>

(***************************************************************************)
(* Specifications of the components taken alone                            *)
(***************************************************************************)
SessionIdle ==
    /\ started = FALSE
    /\ active_page = UPLOAD_PAGE
    /\ rerun = FALSE
    /\ pending = <<>>
    /\ selected_analysis = ""
    /\ job_desc_input = ""
    /\ job_description = ""
    /\ chat_history = <<>>
    /\ current_question = ""
    /\ run_log = <<>>

LlmIdle ==
    /\ groq_api_key = ""
    /\ api_tested = FALSE
    /\ api_working = TRUE
    /\ last_groq_error = ""
    /\ backend = <<>>
    /\ llm_calls = <<>>

EnvIdle ==
    /\ USE_PDF2IMAGE = FALSE
    /\ HAS_POPPLER = FALSE

FormatNext ==
    \/ Format /\ UNCHANGED <<envVars, pdfVars, docVars, repVars, apiVars, llmVars, navVars, uiVars>>
    \/ Reformat /\ UNCHANGED <<envVars, pdfVars, docVars, repVars, apiVars, llmVars, navVars, uiVars>>

ExtractNext ==
    \/ ProcessPdf /\ UNCHANGED <<fmtVars, repVars, apiVars, llmVars, navVars, uiVars>>
    \/ UploadResume /\ UNCHANGED <<fmtVars, repVars, apiVars, llmVars, navVars, uiVars>>

ReportNext ==
    GenerateReport /\ UNCHANGED <<fmtVars, envVars, pdfVars, docVars, apiVars, llmVars, navVars, uiVars>>

LlmNext ==
    Analyze /\ UNCHANGED <<fmtVars, envVars, pdfVars, docVars, repVars, navVars, uiVars>>

InitFormat ==
    FmtInit /\ EnvIdle /\ PdfIdle /\ DocInit /\ RepIdle /\ LlmIdle /\ SessionIdle

SpecFormat == InitFormat /\ [][FormatNext]_vars

InitExtract ==
    ExtractInit /\ FmtIdle /\ RepIdle /\ LlmIdle /\ SessionIdle

SpecExtract == InitExtract /\ [][ExtractNext]_vars

InitReport ==
    ReportInit /\ FmtIdle /\ EnvIdle /\ PdfIdle /\ DocInit /\ LlmIdle /\ SessionIdle

SpecReport == InitReport /\ [][ReportNext]_vars

InitLLM ==
    LlmInit /\ FmtIdle /\ EnvIdle /\ PdfIdle /\ DocInit /\ RepIdle /\ SessionIdle

SpecLLM == InitLLM /\ [][LlmNext]_vars

(***************************************************************************)
(* Properties of the LLM client, under SpecLLM                             *)
(***************************************************************************)
\* the direct calls made with a credential and a backend not flagged unreachable
LiveCalls ==
    {i \in 1..Len(llm_calls) :
        groq_api_key # "" /\ ~(api_tested /\ ~api_working)}

\* the response carries choices[0].message.content of trimmed length > 10
Qualifies(resp) ==
    resp.shape = "content" /\ ~resp.content_none /\ Len(Strip(resp.content)) > 10

\* the first qualifying attempt of a call, 0 when none of its attempts qualifies
FirstQualifying(c) ==
    LET hits == {k \in 1..c.max_retries : Qualifies(c.responses[k])}
    IN  IF hits = {} THEN 0 ELSE CHOOSE k \in hits : \A j \in hits : k <= j

\* C1: with a credential and a backend not flagged unreachable, a call whose
\* every attempt fails issues exactly max_retries requests and returns the
\* failure value "API_FAILED", never the content of a response.
C1_RetryBound ==
    \A i \in LiveCalls :
        LET c == llm_calls[i]
        IN  FirstQualifying(c) = 0
            => /\ Len(c.out.requests) = c.max_retries
               /\ c.out.result = API_FAILED

\* a call of three attempts that fail in three ways: an exception, a
\* response without choices, a content that is too short
C1_Witness ==
    \E i \in LiveCalls :
        LET c == llm_calls[i]
        IN  /\ c.max_retries = 3
            /\ c.responses[1].shape = "exception"
            /\ c.responses[2] = NoChoices
            /\ c.responses[3] = Content("  too short \n")
            /\ Len(c.out.requests) = 3
            /\ c.out.result = API_FAILED

\* C2: a call returns at the first attempt k whose response qualifies: the
\* value returned is the trimmed content of that response and exactly k
\* requests were issued; every earlier attempt failed and was followed by
\* the next one.
C2_FirstSuccess ==
    \A i \in LiveCalls :
        LET c == llm_calls[i]
            k == FirstQualifying(c)
        IN  k > 0
            => /\ c.out.result = Strip(c.responses[k].content)
               /\ Len(c.out.requests) = k
               /\ \A j \in 1..k : c.out.requests[j] = c.prompt

\* the first attempt raises, the second one answers with content that has
\* whitespace around it, and a third attempt was allowed
C2_Witness ==
    \E i \in LiveCalls :
        LET c == llm_calls[i]
        IN  /\ c.max_retries = 3
            /\ c.responses[1].shape = "exception"
            /\ c.responses[2] = Content(" Good resume\n")
            /\ c.out.result = "Good resume"
            /\ Len(c.out.requests) = 2

(***************************************************************************)
(* Properties of the document extractor, under SpecExtract                 *)
(***************************************************************************)
IsPdf(file) == file.present /\ file.type = PDF_MIME

\* the OCR route is taken and an exception leaves its try block
OcrFails(file) ==
    /\ IsPdf(file)
    /\ USE_PDF2IMAGE
    /\ file.rasterize_raises \/ \E k \in 1..Len(file.pages) : file.pages[k].ocr_raises

\* the text-layer route is taken
TextPathRuns(file) == IsPdf(file) /\ (~USE_PDF2IMAGE \/ OcrFails(file))

\* an exception leaves the try block of the text-layer route
TextPathRaises(file) ==
    file.open_raises \/ \E k \in 1..Len(file.pages) : file.pages[k].extract_raises

HasMessage(r, text) == \E i \in 1..Len(r.messages) : r.messages[i] = text

Count(calls, name) == Cardinality({i \in 1..Len(calls) : calls[i] = name})

\* C4: process_pdf never raises: a failure of the OCR route leads to the
\* text-layer route, a failure of a preview rasterization does not stop the
\* text-layer route, and a failure of the text-layer route is reported and
\* gives back the empty text and the empty preview list.
C4_NeverRaises ==
    \A i \in 1..Len(extracted) :
        LET r == extracted[i]
            f == uploaded_resume
        IN  /\ ~r.raised
            /\ OcrFails(f)
               => HasMessage(r, OcrWarning) /\ Count(r.calls, "pdfplumber.open") = 1
            /\ TextPathRuns(f) /\ TextPathRaises(f)
               => HasMessage(r, ExtractError) /\ r.text = "" /\ r.preview = <<>>
            /\ TextPathRuns(f) /\ ~TextPathRaises(f)
               => /\ ~HasMessage(r, ExtractError)
                  /\ Count(r.calls, "extract_text") = Len(f.pages)

\* the OCR route fails on the second page, after two previews were
\* appended, and the text-layer route then fails on its second page
C4_Witness ==
    /\ Len(extracted) = 1
    /\ Len(uploaded_resume.pages) = 2
    /\ USE_PDF2IMAGE
    /\ ~uploaded_resume.rasterize_raises
    /\ ~uploaded_resume.pages[1].ocr_raises
    /\ uploaded_resume.pages[2].ocr_raises
    /\ ~uploaded_resume.open_raises
    /\ ~uploaded_resume.pages[1].extract_raises
    /\ ~uploaded_resume.pages[1].preview_raises
    /\ uploaded_resume.pages[2].extract_raises
    /\ extracted[1].messages = <<OcrWarning, ExtractError>>
    /\ extracted[1].text = ""
    /\ extracted[1].preview = <<>>

\* C5: every document returned by process_pdf, and the preview_images kept
\* in the session, has at most 2 preview images.
C5_AtMostTwoPreviews ==
    /\ \A i \in 1..Len(extracted) : Len(extracted[i].preview) <= 2
    /\ Len(preview_images) <= 2

\* C6: on the text-layer route alone (no OCR tools), the text returned is
\* non-empty if and only if some page has non-empty extracted text.
C6_TextIffSomePageHasText ==
    \A i \in 1..Len(extracted) :
        LET r == extracted[i]
            f == uploaded_resume
        IN  IsPdf(f) /\ ~USE_PDF2IMAGE /\ ~TextPathRaises(f)
            => (r.text # ""
                <=> \E k \in 1..Len(f.pages) :
                        ~f.pages[k].extract_none /\ f.pages[k].extract_text # "")

(***************************************************************************)
(* Property of the report generator, under SpecReport                      *)
(***************************************************************************)
\* C7: generate_enhanced_pdf_report never raises: for every mapping it
\* returns the document bytes, or it surfaces an error and returns the
\* empty byte sequence.
C7_ReportNeverRaises ==
    \A i \in 1..Len(pdf_report) :
        LET r == pdf_report[i]
        IN  /\ ~r.raised
            /\ r.bytes # <<>> \/ r.messages = <<ReportError>>

(***************************************************************************)
(* Property of the result formatter, under SpecFormat                      *)
(***************************************************************************)
Glyphs == {"*", "+", BULLET}

\* no [STRENGTH]/[WEAKNESS] marker, and no bullet glyph at either end of
\* the text once the surrounding whitespace is set aside
Clean(x) ==
    /\ ~Contains(x, STRENGTH)
    /\ ~Contains(x, WEAKNESS)
    /\ \A g \in Glyphs : ~StartsWith(Strip(x), g) /\ ~EndsWith(Strip(x), g)

\* C8: on clean text, whitespace-only text included, formatting the output
\* of format_analysis_result again gives the same output.
C8_FormatIdempotent ==
    Len(fmt_out) = 2 /\ Clean(fmt_x) => fmt_out[2] = fmt_out[1]

(***************************************************************************)
(* Properties of the session, under Spec                                   *)
(***************************************************************************)
Panels == {i \in 1..Len(run_log) : run_log[i].op = "panel"}

\* C3: a failed analysis is replaced by the static guidance before it is
\* rendered or put in the report, in the single analyses and in every step
\* of the Complete Analysis: the raw failure value is never in a result
\* panel nor in the data of the downloadable report.
C3_FailureNeverSurfaces ==
    /\ \A i \in Panels : run_log[i].text # API_FAILED
    /\ \A i \in 1..Len(report_data) : report_data[i][2] # API_FAILED

\* the flag as the startup probe left it
Unreachable == api_tested /\ ~api_working

\* every call of the latest run came back degraded and sent nothing
AllDegraded ==
    \A i \in 1..Len(llm_calls) :
        /\ llm_calls[i].out.result = UnavailableMessage
        /\ llm_calls[i].out.requests = <<>>

\* the flag is written only while it is unset and a key is configured, and
\* is left alone once set
FlagWrittenOnce ==
    /\ api_tested => api_tested' /\ api_working' = api_working
    /\ ~api_tested /\ api_tested' => groq_api_key # ""
    /\ ~api_tested /\ ~api_tested' => api_working' = api_working

\* C9: the API-reachable flag is written at most once per session, by the
\* startup probe and only with a key configured; once the probe has
\* recorded the backend as unreachable, every later call of
\* analyze_resume_with_llm returns the degraded value and sends no request.
C9_FlagOnceThenDegraded ==
    /\ [](Unreachable => AllDegraded)
    /\ [][FlagWrittenOnce]_vars

\* after a chat answer was given degraded, a single analysis is run and
\* comes back degraded too, with the retry button offered
C9_Witness ==
    /\ Unreachable
    /\ active_page = RESULTS_PAGE
    /\ Len(llm_calls) = 1
    /\ llm_calls[1].out.result = UnavailableMessage
    /\ llm_calls[1].out.requests = <<>>
    /\ Shown(run_log, Button("Retry AI Analysis"))
    /\ Len(chat_history) = 2
    /\ chat_history[2].content = UnavailableMessage

\* the panel shows the static guidance of some analysis kind
ShowsGuidance(i) ==
    \E k \in 1..Len(analysis_options) :
        run_log[i].text = format_analysis_result(ManualTip(analysis_options[k].name))

\* C10: with no credential configured, every call returns at once with no
\* request sent and the results page treats what it returned as a failure:
\* the result panel shows the static guidance.
C10_NoKeyTreatedAsFailure ==
    groq_api_key = ""
    => /\ \A i \in 1..Len(llm_calls) : llm_calls[i].out.requests = <<>>
       /\ \A i \in Panels : ShowsGuidance(i)

\* the calls of the latest run that the results page made
AnalysisCalls ==
    IF \E i \in 1..Len(run_log) : run_log[i] = Ev("call", "chat") THEN 0
    ELSE Len(llm_calls)

AnalysisKinds == {analysis_options[i].name : i \in 1..Len(analysis_options)}

\* the pending event is a click on an analysis button of the upload page
AnalysisClickPending ==
    /\ pending # <<>>
    /\ active_page = UPLOAD_PAGE
    /\ pending[1].page = ""
    /\ pending[1].clicked \in AnalysisKinds

\* a click with a resume and no job description: the run stays on the
\* upload page, shows the validation message and calls nothing
ClickWithoutJobRejected ==
    AnalysisClickPending /\ resume_text' # "" /\ job_description' = ""
    => /\ active_page' = UPLOAD_PAGE
       /\ ~rerun'
       /\ selected_analysis' = selected_analysis
       /\ Shown(run_log', Ev("error", "Please provide a job description"))
       /\ llm_calls' = <<>>

\* C11: the results page calls analyze_resume_with_llm only when the resume
\* text and the job description of the session are both non-empty, however
\* the page was reached; a click on an analysis button with a resume and an
\* empty job description shows a validation message and does not switch to
\* the results page.
C11_ValidationGate ==
    /\ [](AnalysisCalls > 0 => resume_text # "" /\ job_description # "")
    /\ [][ClickWithoutJobRejected]_vars

\* a click was rejected for the job description alone
C11_Witness ==
    /\ active_page = UPLOAD_PAGE
    /\ resume_text # ""
    /\ job_description = ""
    /\ Shown(run_log, Ev("error", "Please provide a job description"))
    /\ ~Shown(run_log, Ev("error", "Please upload a resume first"))
    /\ llm_calls = <<>>

\* the positions of the latest run's log with the given operation
Positions(op) == {i \in 1..Len(run_log) : run_log[i].op = op}

\* a run of the Complete Analysis that reached the end of its loop
CompleteRan ==
    /\ active_page = RESULTS_PAGE
    /\ selected_analysis = COMPLETE
    /\ Positions("progress") # {}

\* the four sub-analyses were called one after the other, in the order of
\* analysis_steps, each with the template of its own kind
StepsInOrder ==
    /\ Len(llm_calls) = Len(analysis_steps)
    /\ \A i \in 1..Len(analysis_steps) :
        /\ llm_calls[i].prompt = FullPrompt(OptionPrompt(analysis_steps[i][1]), resume_text,
                                            job_description, CompleteMargin)
        /\ Cardinality({p \in Positions("call") :
                            run_log[p].text = analysis_steps[i][1]}) = 1
        /\ \A p \in Positions("call") : run_log[p].text = analysis_steps[i][1] =>
               /\ Cardinality({q \in Positions("call") : q < p}) = i - 1
               /\ Cardinality({q \in Positions("return") : q < p}) = i - 1

\* the progress bar is set to i/4 after the i-th call has returned
ProgressAfterReturn ==
    \A p \in Positions("progress") :
        LET i == Cardinality({q \in Positions("progress") : q <= p})
        IN  /\ run_log[p].text = ToString(i) \o "/" \o ToString(Len(analysis_steps))
            /\ Cardinality({q \in Positions("return") : q < p}) >= i

\* C12: the Complete Analysis runs exactly four sub-analyses, one at a time,
\* in the order Quick Overview, Issues Analysis, Enhancement Tips, Job
\* Matching, each with the template of its own kind, and the progress bar is
\* advanced to i/4 only after the i-th sub-analysis has returned.
C12_ProgressFollowsSteps ==
    CompleteRan => StepsInOrder /\ ProgressAfterReturn

\* the three kinds of value of a call: the trimmed content of a qualifying
\* response, the notice of the degraded mode, the failure value
IsSuccess(c) == c.out.requests # <<>> /\ FirstQualifying(c) > 0
IsDegraded(c) == c.out.requests = <<>> /\ c.out.result = UnavailableMessage
IsFailure(c) == c.out.requests # <<>> /\ FirstQualifying(c) = 0

\* what the results page does with a value: line 711 takes it for a failure,
\* line 719 for a failure or for the degraded mode
TakenForFailure(result) == Substitute(analysis_options[1].name, result) # result
TakenForDegraded(result) == ~TakenForFailure(result) /\ RetryOffered(result)
TakenForSuccess(result) == ~TakenForFailure(result) /\ ~RetryOffered(result)

\* C13: every value analyze_resume_with_llm returns is handled by the
\* results page as exactly one of success, degraded, failure: a success text
\* (any content of trimmed length > 10) is never the failure value and is
\* never taken for degraded or failure, and a degraded or failure value is
\* never taken for a success text.
C13_OutcomesDisjoint ==
    \A i \in 1..Len(llm_calls) :
        LET c == llm_calls[i]
        IN  /\ IsSuccess(c) => c.out.result # API_FAILED /\ TakenForSuccess(c.out.result)
            /\ IsDegraded(c) => TakenForDegraded(c.out.result)
            /\ IsFailure(c) => TakenForFailure(c.out.result)

\* the attempts of a call that failed: all of them, or those before the
\* first qualifying one
FailedAttempts(c) ==
    IF FirstQualifying(c) = 0 THEN c.max_retries ELSE FirstQualifying(c) - 1

AttemptLabel(n) == "Attempt " \o ToString(n) \o ": "

\* C14: every failed attempt of analyze_resume_with_llm (exception,
\* malformed response, empty or too short content) is recorded with its
\* error text, and when the last attempt fails the failure that is reported
\* carries the error text of that last attempt, not the text of an earlier
\* attempt and not an absent text.
C14_LastErrorReported ==
    \A i \in LiveCalls :
        LET c == llm_calls[i]
        IN  /\ Len(c.out.errors) = FailedAttempts(c)
            /\ FirstQualifying(c) = 0
               => /\ StartsWith(c.out.last_error, AttemptLabel(c.max_retries))
                  /\ last_groq_error = c.out.last_error
                  /\ \E m \in 1..Len(c.out.messages) :
                         c.out.messages[m] = "Analysis failed: " \o c.out.last_error

\* C15: for every non-empty text, the output of format_analysis_result
\* contains neither the marker [STRENGTH] nor the marker [WEAKNESS], also
\* when the removal of a marker or of a bullet glyph brings the pieces of
\* another marker together.
C15_NoMarkerLeft ==
    fmt_x # "" /\ fmt_out # <<>>
    => ~Contains(fmt_out[1], STRENGTH) /\ ~Contains(fmt_out[1], WEAKNESS)

(***************************************************************************)
(* More properties of the extractor, under SpecExtract                     *)
(***************************************************************************)
\* C17: for an absent upload or an upload whose MIME type is not
\* application/pdf, process_pdf returns the empty text and the empty preview
\* list without reading the bytes of the file and without entering the OCR
\* route or the text-layer route.
C17_NonPdfUntouched ==
    \A i \in 1..Len(extracted) :
        ~IsPdf(uploaded_resume)
        => /\ extracted[i].text = ""
           /\ extracted[i].preview = <<>>
           /\ extracted[i].calls = <<>>
           /\ extracted[i].messages = <<>>
           /\ ~extracted[i].raised

\* an image with a readable page was handed to process_pdf on a machine
\* with both routes available
C17_Witness ==
    /\ extracted # <<>>
    /\ uploaded_resume.present
    /\ uploaded_resume.type # PDF_MIME
    /\ \E k \in 1..Len(uploaded_resume.pages) :
           /\ ~uploaded_resume.pages[k].ocr_raises
           /\ uploaded_resume.pages[k].extract_text # ""
    /\ USE_PDF2IMAGE /\ HAS_POPPLER

\* what the text-layer route alone returns for the file on this machine
TextLayerAlone(file) == process_pdf(file, FALSE, HAS_POPPLER)

\* C18: when the OCR route raises, during the rasterization or during the
\* OCR of a page after earlier pages were processed, process_pdf returns
\* what the text-layer route alone returns for the same PDF: no page text
\* and no preview image collected by the failed OCR route is in the result.
C18_FallbackIsTextLayerAlone ==
    \A i \in 1..Len(extracted) :
        OcrFails(uploaded_resume)
        => /\ extracted[i].text = TextLayerAlone(uploaded_resume).text
           /\ extracted[i].preview = TextLayerAlone(uploaded_resume).preview

(***************************************************************************)
(* Property of the prompts of the results page, under SpecPrompt           *)
(***************************************************************************)
\* the template and the margin of the i-th call of the latest run
CallTemplate(i) ==
    IF selected_analysis = COMPLETE THEN OptionPrompt(analysis_steps[i][1])
    ELSE OptionPrompt(selected_analysis)

CallMargin == IF selected_analysis = COMPLETE THEN CompleteMargin ELSE SingleMargin

\* what precedes and what follows the resume text in a prompt
PromptHead(i) ==
    CallTemplate(i) \o "\n" \o CallMargin \o "Resume Content:\n" \o CallMargin

PromptTail ==
    "\n" \o CallMargin \o "Job Description:\n" \o CallMargin \o job_description
    \o "\n" \o CallMargin \o Closing

\* the part of the prompt between the two
ResumePart(i) ==
    SubSeq(llm_calls[i].prompt, Len(PromptHead(i)) + 1,
           Len(llm_calls[i].prompt) - Len(PromptTail))

\* C16: for every resume text and every analysis kind, the prompt built on
\* the results page is the kind's template, the first 4000 characters of the
\* resume text when it is longer than 4000 characters and the whole text
\* otherwise, never more, the full job description and the closing
\* instruction; a longer text is cut, the run does not fail on it.
C16_PromptTruncated ==
    \A i \in 1..AnalysisCalls :
        /\ StartsWith(llm_calls[i].prompt, PromptHead(i))
        /\ EndsWith(llm_calls[i].prompt, PromptTail)
        /\ Len(ResumePart(i)) <= ResumeCap
        /\ StartsWith(resume_text, ResumePart(i))
        /\ Len(resume_text) <= ResumeCap => ResumePart(i) = resume_text
        /\ Len(resume_text) > ResumeCap => Len(ResumePart(i)) = ResumeCap
        /\ Shown(run_log, Ev("return", llm_calls[i].out.result))

\* a Complete Analysis of a resume one character longer than the cap
C16_Witness ==
    /\ AnalysisCalls = Len(analysis_steps)
    /\ Len(resume_text) = ResumeCap + 1
    /\ \A i \in 1..AnalysisCalls : Len(ResumePart(i)) = ResumeCap

(***************************************************************************)
(* More properties of the session, under Spec                              *)
(***************************************************************************)
\* the latest run was a single analysis of the results page
SingleRan ==
    /\ AnalysisCalls = 1
    /\ selected_analysis \in AnalysisKinds \ {COMPLETE}

\* C19: on the single-analysis path the "Retry AI Analysis" button is
\* offered whenever analyze_resume_with_llm returned the failure value
\* (retries exhausted) or the notice of the degraded mode (backend flagged
\* unreachable), and in no other case; without a click on it no further
\* request follows the outcome.
C19_RetryOfferedOnFailure ==
    SingleRan =>
        /\ Shown(run_log, Button("Retry AI Analysis"))
           <=> llm_calls[1].out.result \in {API_FAILED, UnavailableMessage}
        /\ rerun /\ active_page = RESULTS_PAGE
           => Shown(run_log, Button("Retry AI Analysis"))

(***************************************************************************)
(* Property of the assistant page, under SpecChat                          *)
(***************************************************************************)
\* user and assistant turns alternate, the first one is a user turn
Alternates(chat) ==
    /\ Len(chat) % 2 = 0
    /\ \A i \in 1..Len(chat) :
           chat[i].role = (IF i % 2 = 1 THEN "user" ELSE "assistant")

\* the turns the latest run displayed, from the top of the page down
Displayed ==
    SelectSeq(run_log, LAMBDA e : e.op \in {"user", "assistant"})

\* the display is the most recent DisplayCap turns, the latest one first
DisplayIsRecent ==
    /\ Len(Displayed) <= DisplayCap
    /\ Len(Displayed) <= Len(chat_history)
    /\ Len(chat_history) <= DisplayCap => Len(Displayed) = Len(chat_history)
    /\ Len(chat_history) > DisplayCap => Len(Displayed) = DisplayCap
    /\ \A j \in 1..Len(Displayed) :
           LET msg == chat_history[Len(chat_history) - j + 1]
           IN  /\ Displayed[j].op = msg.role
               /\ msg.role = "user" => Displayed[j].text = msg.content
               /\ msg.role = "assistant"
                  => Displayed[j].text = format_analysis_result(msg.content)

\* a run clears the history on a click on Clear, and otherwise leaves it as
\* it is or appends the question and its answer
ChatStep ==
    \/ /\ pending # <<>> /\ pending[1].clicked = "Clear" /\ active_page = ASSISTANT_PAGE
       /\ chat_history' = <<>>
    \/ /\ ~(pending # <<>> /\ pending[1].clicked = "Clear" /\ active_page = ASSISTANT_PAGE)
       /\ \/ chat_history' = chat_history
          \/ /\ Len(chat_history') = Len(chat_history) + 2
             /\ SubSeq(chat_history', 1, Len(chat_history)) = chat_history
             /\ Len(llm_calls') = 1
             /\ chat_history'[Len(chat_history) + 1].role = "user"
             /\ Contains(llm_calls'[1].prompt,
                         "User Question: "
                         \o chat_history'[Len(chat_history) + 1].content \o "\n")
             /\ chat_history'[Len(chat_history) + 2]
                    = Turn("assistant", llm_calls'[1].out.result)

\* C20: after any sequence of Ask, quick-question and Clear actions on the
\* assistant page the chat history has even length and alternates user and
\* assistant turns starting with a user turn: each processed question appends
\* one user turn followed by one assistant turn, existing turns are never
\* modified or reordered, Clear empties the history, and the page displays
\* only the most recent 10 turns.
C20_ChatAlternates ==
    /\ [](Alternates(chat_history) /\ (Displayed # <<>> => DisplayIsRecent))
    /\ [][ChatStep]_vars

\* six questions were processed and the page displays the last five with
\* their answers
C20_Witness ==
    /\ Len(chat_history) = DisplayCap + 2
    /\ Len(Displayed) = DisplayCap
    /\ Displayed[DisplayCap].text = chat_history[3].content
    /\ chat_history[1].content # chat_history[3].content

====
